---- MODULE Spec2Model ----
(***************************************************************************)
(* State-machine model of the sol-lock on-chain program                    *)
(* (program/src/processor.rs, validation_utils.rs, state.rs, pack_utils.rs)*)
(*                                                                         *)
(* One instruction is one atomic step: the runtime commits the account     *)
(* writes and lamport movements of an instruction that returns Ok and      *)
(* discards all of them when it returns Err or panics.                     *)
(***************************************************************************)
EXTENDS Integers, FiniteSets, Sequences, TLC

(* ------------------------------ bounds --------------------------------- *)
\* largest lamports argument an instruction carries
MaxLamports == 2
\* the clock runs over 0..MaxTime, deadlines over 0..MaxTime
MaxTime == 1
\* lamports in the owner's wallet at the start
InitBalance == 3
\* 2^64 scaled down to the model's integers: u64 arithmetic is taken modulo
\* this, and the lamports in existence stay below it as they do below 2^64
U64Modulus == 16

(* --------------------------- program constants ------------------------- *)
\* rent.minimum_balance(SOL_LOCK_ACCOUNT_SIZE): the reserve Create deposits
RentMinimumBalance == 1

(* ------------------------------ pubkeys -------------------------------- *)
Wallet(name) == <<"wallet", name, 0>>
SystemProgramId == <<"program", "system", 0>>
ProgramId == <<"program", "sol_lock", 0>>
ZeroKey == <<"zero", "", 0>>

\* Pubkey::find_program_address(&[owner, acc_index.to_le_bytes()], program_id).0
get_sol_lock_account(program_id, owner, acc_index) ==
    <<"pda", owner[2], acc_index>>

OwnerNames == {"alice"}
Indices == {0, 1}
Owners == {Wallet(n) : n \in OwnerNames}
\* a third party that can be passed as Sol Payer / Sol Receiver, and that
\* can sign instructions of its own
Carol == Wallet("carol")
Identities == Owners \cup {Carol}
\* the SolLock addresses of the owners, and of every identity
OwnerKeys == {get_sol_lock_account(ProgramId, o, i) : o \in Owners, i \in Indices}
Keys == {get_sol_lock_account(ProgramId, o, i) : o \in Identities, i \in Indices}
Addresses == Identities \cup Keys

(* ------------------------------ Option<T> ------------------------------ *)
None == [some |-> FALSE, val |-> 0]
Some(v) == [some |-> TRUE, val |-> v]
NoneKey == [some |-> FALSE, val |-> ZeroKey]

(* ------------------------------ state.rs ------------------------------- *)
State ==
    {"Uninitialized", "Initialized", "HasFunds", "HasDeadline",
     "ReadyUnlocked", "Locked", "Staked"}

\* the bytes of an account that was never created, read as an Account
EmptyAccount ==
    [owner |-> ZeroKey, lamports |-> None, deadline |-> None,
     stake_account |-> NoneKey, state |-> "Uninitialized"]

is_initialized(account) == account.state # "Uninitialized"

(* --------------------- state.rs: Pack for Account ---------------------- *)
\* the Pubkeys the ledger knows
Pubkeys == Addresses \cup {ZeroKey, SystemProgramId, ProgramId}

\* Pubkey::to_bytes: 32 bytes, different for different keys, zero for the
\* default key
RECURSIVE Zeros(_)
Zeros(n) == IF n = 0 THEN <<>> ELSE <<0>> \o Zeros(n - 1)

pubkey_tag(k) ==
    (CASE k[1] = "zero" -> 0 [] k[1] = "program" -> 1
       [] k[1] = "wallet" -> 2 [] k[1] = "pda" -> 3)
pubkey_name(k) ==
    (CASE k[2] = "" -> 0 [] k[2] = "system" -> 1 [] k[2] = "sol_lock" -> 2
       [] k[2] = "alice" -> 3 [] k[2] = "carol" -> 4)
pubkey_to_bytes(k) == <<pubkey_tag(k), pubkey_name(k), k[3]>> \o Zeros(29)

\* Pubkey::new(bytes)
pubkey_new(bytes) == CHOOSE k \in Pubkeys : pubkey_to_bytes(k) = bytes

\* u64::to_le_bytes as n bytes, least significant first
RECURSIVE to_le_bytes(_, _)
to_le_bytes(v, n) ==
    IF n = 0 THEN <<>> ELSE <<v % 256>> \o to_le_bytes(v \div 256, n - 1)

\* u64::from_le_bytes
RECURSIVE from_le_bytes(_)
from_le_bytes(bytes) ==
    IF bytes = <<>> THEN 0 ELSE Head(bytes) + 256 * from_le_bytes(Tail(bytes))

\* i64::to_le_bytes: two's complement, a negative v is the bytewise
\* complement of -v - 1
i64_to_le_bytes(v) ==
    IF v >= 0 THEN to_le_bytes(v, 8)
    ELSE [i \in 1..8 |-> 255 - to_le_bytes(-v - 1, 8)[i]]

\* i64::from_le_bytes
i64_from_le_bytes(bytes) ==
    IF bytes[8] < 128 THEN from_le_bytes(bytes)
    ELSE -from_le_bytes([i \in 1..8 |-> 255 - bytes[i]]) - 1

\* self.state as u8
state_as_u8(state) ==
    CASE state = "Uninitialized" -> 0
      [] state = "Initialized" -> 1
      [] state = "HasFunds" -> 2
      [] state = "HasDeadline" -> 3
      [] state = "ReadyUnlocked" -> 4
      [] state = "Locked" -> 5
      [] state = "Staked" -> 6

\* mutant: the tags are read one off, as if the enum had no Uninitialized
state_from_u8_Shifted(b) ==
    IF b > 5 THEN None
    ELSE Some(CHOOSE state \in State : state_as_u8(state) = b + 1)

\* num::FromPrimitive::from_u8 for State
state_from_u8(b) ==
    IF b > 6 THEN None
    ELSE Some(CHOOSE state \in State : state_as_u8(state) = b)

SubSeqFrom(bytes, first, len) == SubSeq(bytes, first, first + len - 1)

\* pack_into_slice: owner, lamports, deadline, stake_account, state
pack_into_slice(account) ==
    pubkey_to_bytes(account.owner)
    \o <<IF account.lamports.some THEN 1 ELSE 0>>
    \o (IF account.lamports.some THEN to_le_bytes(account.lamports.val, 8)
        ELSE Zeros(8))
    \o <<IF account.deadline.some THEN 1 ELSE 0>>
    \o (IF account.deadline.some THEN i64_to_le_bytes(account.deadline.val)
        ELSE Zeros(8))
    \o <<IF account.stake_account.some THEN 1 ELSE 0>>
    \o (IF account.stake_account.some
        THEN pubkey_to_bytes(account.stake_account.val)
        ELSE Zeros(32))
    \o <<state_as_u8(account.state)>>

\* unpack_option and unpack_from_slice: the error, and the Account read
unpack_from_slice(src) ==
    LET owner_src == SubSeqFrom(src, 1, 32)
        lamports_src == SubSeqFrom(src, 33, 9)
        deadline_src == SubSeqFrom(src, 42, 9)
        stake_account_src == SubSeqFrom(src, 51, 33)
        state_src == SubSeqFrom(src, 84, 1)
        state_opt == state_from_u8(state_src[1])
    IN  IF lamports_src[1] > 1 \/ deadline_src[1] > 1 \/ stake_account_src[1] > 1
           \/ ~state_opt.some
        THEN [err |-> "UnpackError", account |-> EmptyAccount]
        ELSE [err |-> "Ok",
              account |->
                [owner |-> pubkey_new(owner_src),
                 lamports |-> IF lamports_src[1] = 0 THEN None
                              ELSE Some(from_le_bytes(Tail(lamports_src))),
                 deadline |-> IF deadline_src[1] = 0 THEN None
                              ELSE Some(i64_from_le_bytes(Tail(deadline_src))),
                 stake_account |-> IF stake_account_src[1] = 0 THEN NoneKey
                                   ELSE Some(pubkey_new(Tail(stake_account_src))),
                 state |-> state_opt.val]]

(* ------------------------- validation_utils.rs ------------------------- *)
\* The first failing check decides the error (the ? operator); "Ok" if none.
RECURSIVE FirstErr(_)
FirstErr(results) ==
    IF results = <<>> THEN "Ok"
    ELSE IF Head(results) # "Ok" THEN Head(results)
    ELSE FirstErr(Tail(results))

\* mutant: the signature of the account is not looked at
assert_is_signer_Skipped(is_signer) == "Ok"

assert_is_signer(is_signer) ==
    IF is_signer THEN "Ok" ELSE "MissingRequiredSignature"

assert_keys_equal(key1, key2) ==
    IF key1 # key2 THEN "PublicKeyMismatch" ELSE "Ok"

assert_owned_by(account_owner, owner) ==
    IF account_owner # owner THEN "IncorrectOwner" ELSE "Ok"

\* unpack_unchecked rejects data that is not SOL_LOCK_ACCOUNT_SIZE long (an
\* account that was never created has no data), then is_initialized decides
assert_initialized(account_owner, account) ==
    IF account_owner = SystemProgramId THEN "InvalidAccountData"
    ELSE IF ~is_initialized(account) THEN "UninitializedAccount"
    ELSE "Ok"

assert_has_funds(account) ==
    IF account.lamports.some /\ account.lamports.val > 0 THEN "Ok" ELSE "NoFunds"

\* mutant: the requested amount is not compared with the locked amount
assert_sufficient_funds_Unchecked(account, lamports_to_remove) ==
    IF ~account.lamports.some THEN "Panic" ELSE "Ok"

\* account.lamports.unwrap() panics on None
assert_sufficient_funds(account, lamports_to_remove) ==
    IF ~account.lamports.some THEN "Panic"
    ELSE IF account.lamports.val < lamports_to_remove THEN "InsufficientFunds"
    ELSE "Ok"

\* mutant: an earlier deadline is accepted
assert_valid_new_deadline_Accepting(account, deadline) == "Ok"

assert_valid_new_deadline(account, deadline) ==
    IF account.deadline.some /\ account.deadline.val > deadline
    THEN "NewDeadlineTooEarly"
    ELSE "Ok"

assert_can_lock(account) ==
    IF account.state # "ReadyUnlocked" THEN "InvalidInstructionData" ELSE "Ok"

\* mutant: the temporal gate is missing
assert_can_unlock_NoTimeGate(account, now_ts) ==
    IF account.state # "Locked" THEN "InvalidInstructionData"
    ELSE IF ~account.deadline.some THEN "Panic"
    ELSE "Ok"

\* mutant: the state check is missing
assert_can_unlock_AnyState(account, now_ts) ==
    IF ~account.deadline.some THEN "Panic"
    ELSE IF now_ts < account.deadline.val THEN "PrematureUnlock"
    ELSE "Ok"

\* mutant: the comparison with the deadline is reversed
assert_can_unlock_Reversed(account, now_ts) ==
    IF account.state # "Locked" THEN "InvalidInstructionData"
    ELSE IF ~account.deadline.some THEN "Panic"
    ELSE IF now_ts > account.deadline.val THEN "PrematureUnlock"
    ELSE "Ok"

\* account.deadline.unwrap() panics on None
assert_can_unlock(account, now_ts) ==
    IF account.state # "Locked" THEN "InvalidInstructionData"
    ELSE IF ~account.deadline.some THEN "Panic"
    ELSE IF now_ts < account.deadline.val THEN "PrematureUnlock"
    ELSE "Ok"

\* mutant: a flag set without a receiver account falls back to the owner
assert_receiver_validity_OneWay(owner_key, sol_receiver_account_res, has_receiver) ==
    IF sol_receiver_account_res.some
    THEN IF ~has_receiver
         THEN [err |-> "ConflictingPayerInfo", key |-> ZeroKey]
         ELSE [err |-> "Ok", key |-> sol_receiver_account_res.val]
    ELSE [err |-> "Ok", key |-> owner_key]

\* receiver is Some(key) when a third account was passed, NoneKey otherwise;
\* the result is the error and the account that will be credited
assert_receiver_validity(owner_key, sol_receiver_account_res, has_receiver) ==
    IF sol_receiver_account_res.some
    THEN IF ~has_receiver
         THEN [err |-> "ConflictingPayerInfo", key |-> ZeroKey]
         ELSE [err |-> "Ok", key |-> sol_receiver_account_res.val]
    ELSE IF has_receiver
         THEN [err |-> "ConflictingPayerInfo", key |-> ZeroKey]
         ELSE [err |-> "Ok", key |-> owner_key]

(* ------------------------ runtime collaborators ------------------------ *)
\* system_instruction::transfer: fails when the source cannot cover it
CanTransfer(bal, from, lamports) == bal[from] >= lamports

Debit(bal, key, lamports) == [bal EXCEPT ![key] = @ - lamports]
Credit_Dropped(bal, key, lamports) == bal

Credit(bal, key, lamports) == [bal EXCEPT ![key] = @ + lamports]

\* u64 addition / subtraction as the release build computes them
U64Add(a, b) == (a + b) % U64Modulus
U64Sub(a, b) == (a - b) % U64Modulus

\* A ledger L is [owner, data, bal, now]: for every address of a SolLock
\* account its storage owner and its Account record, the lamports of every
\* address, and the Clock sysvar's unix_timestamp.
\* An instruction hands back its error ("Ok" on success) and the ledger it
\* leaves; the runtime keeps that ledger only when the error is "Ok".
Failed(err, L) == [err |-> err, ledger |-> L]
Succeeded(L) == [err |-> "Ok", ledger |-> L]

(* ------------------------------ processor.rs --------------------------- *)
\* ix = [owner, is_signer, acc_index, sol_lock_key, system_key]
\* mutant: an address already in use is not refused
create_account_refusal_Reuses(L, from, to, lamports) ==
    IF ~CanTransfer(L.bal, from, lamports) THEN "InsufficientLamports" ELSE "Ok"

\* invoke_signed(system_instruction::create_account): the system program
\* refuses an address already in use and a payer that cannot cover the rent
\* reserve
create_account_refusal(L, from, to, lamports) ==
    IF L.owner[to] # SystemProgramId \/ L.bal[to] > 0 THEN "AccountAlreadyInUse"
    ELSE IF ~CanTransfer(L.bal, from, lamports) THEN "InsufficientLamports"
    ELSE "Ok"

create_account(ix, L) ==
    LET sol_lock_account_key == get_sol_lock_account(ProgramId, ix.owner, ix.acc_index)
        checks == FirstErr(<<
            assert_is_signer(ix.is_signer),
            assert_keys_equal(sol_lock_account_key, ix.sol_lock_key),
            assert_owned_by(L.owner[ix.sol_lock_key], ix.system_key) >>)
        lamports == RentMinimumBalance
        sol_lock_account_data ==
            [owner |-> ix.owner, lamports |-> None, deadline |-> None,
             state |-> "Initialized", stake_account |-> NoneKey]
        refusal == create_account_refusal(L, ix.owner, sol_lock_account_key, lamports)
    IN  IF checks # "Ok" THEN Failed(checks, L)
        ELSE IF refusal # "Ok" THEN Failed(refusal, L)
        ELSE Succeeded(
            [L EXCEPT !.owner[sol_lock_account_key] = ProgramId,
                      !.data[sol_lock_account_key] = sol_lock_account_data,
                      !.bal = Credit(Debit(L.bal, ix.owner, lamports),
                                     sol_lock_account_key, lamports)])

\* mutant: the match treats Locked as unreachable!(), after the transfer
add_sol_new_state_LockedUnreachable(state) ==
    CASE state = "Uninitialized" -> "Panic"
      [] state = "Initialized" -> "HasFunds"
      [] state = "HasFunds" -> "HasFunds"
      [] state = "HasDeadline" -> "ReadyUnlocked"
      [] state = "ReadyUnlocked" -> "ReadyUnlocked"
      [] state = "Locked" -> "Panic"
      [] state = "Staked" -> "Staked"

add_sol_new_state_DropsDeadline(state) ==
    CASE state = "Uninitialized" -> "Panic"
      [] state = "Initialized" -> "HasFunds"
      [] state = "HasFunds" -> "HasFunds"
      [] state = "HasDeadline" -> "HasFunds"
      [] state = "ReadyUnlocked" -> "ReadyUnlocked"
      [] state = "Locked" -> "Locked"
      [] state = "Staked" -> "Staked"

add_sol_new_state(state) ==
    CASE state = "Uninitialized" -> "Panic"
      [] state = "Initialized" -> "HasFunds"
      [] state = "HasFunds" -> "HasFunds"
      [] state = "HasDeadline" -> "ReadyUnlocked"
      [] state = "ReadyUnlocked" -> "ReadyUnlocked"
      [] state = "Locked" -> "Locked"
      [] state = "Staked" -> "Staked"

\* the second match of add_sol panics on unwrap() of None and in its
\* unreachable!() arm
add_sol_panics(account) ==
    \/ account.state = "Uninitialized"
    \/ /\ account.state \in {"HasFunds", "ReadyUnlocked", "Locked", "Staked"}
       /\ ~account.lamports.some

\* the lamports field after AddSol
add_sol_new_lamports(account, lamports) ==
    IF account.state \in {"Initialized", "HasDeadline"}
    THEN Some(lamports)
    ELSE Some(U64Add(account.lamports.val, lamports))

\* ix = [owner, is_signer, acc_index, sol_lock_key, lamports, has_payer,
\*       payer (Some(key) when a fourth account is passed), payer_is_signer]
add_sol(ix, L) ==
    LET conflict == IF ix.payer.some THEN ~ix.has_payer ELSE ix.has_payer
        payer_is_signer == IF ix.payer.some THEN ix.payer_is_signer ELSE ix.is_signer
        sol_lock_account_key == get_sol_lock_account(ProgramId, ix.owner, ix.acc_index)
        checks == FirstErr(<<
            assert_is_signer(ix.is_signer),
            assert_is_signer(payer_is_signer),
            assert_keys_equal(sol_lock_account_key, ix.sol_lock_key),
            assert_owned_by(L.owner[ix.sol_lock_key], ProgramId),
            assert_initialized(L.owner[ix.sol_lock_key], L.data[ix.sol_lock_key]) >>)
        account == L.data[sol_lock_account_key]
        new_state == add_sol_new_state(account.state)
        new_lamports == add_sol_new_lamports(account, ix.lamports)
        \* invoke(system_instruction::transfer(owner, sol_lock_account, lamports))
        transferred ==
            [L EXCEPT !.bal = Credit(Debit(L.bal, ix.owner, ix.lamports),
                                     sol_lock_account_key, ix.lamports)]
    IN  IF conflict THEN Failed("ConflictingPayerInfo", L)
        ELSE IF checks # "Ok" THEN Failed(checks, L)
        ELSE IF ~CanTransfer(L.bal, ix.owner, ix.lamports)
        THEN Failed("InsufficientLamports", L)
        \* the matches run after the transfer was made
        ELSE IF new_state = "Panic" \/ add_sol_panics(account)
        THEN Failed("Panic", transferred)
        ELSE Succeeded(
            [transferred EXCEPT !.data[sol_lock_account_key] =
                          [account EXCEPT !.lamports = new_lamports,
                                          !.state = new_state]])

\* the first match of remove_sol: the new state, or the error it returns
remove_sol_new_state(account, lamports) ==
    CASE account.state = "HasFunds" ->
            IF account.lamports.val > lamports THEN "HasFunds" ELSE "Initialized"
      [] account.state = "ReadyUnlocked" -> "ReadyUnlocked"
      [] account.state \in {"Initialized", "HasDeadline"} -> "NoFunds"
      [] account.state \in {"Locked", "Staked"} -> "FundsLocked"
      [] account.state = "Uninitialized" -> "Panic"

remove_sol_new_lamports_Kept(account, lamports) ==
    Some(account.lamports.val)

\* the lamports field after RemoveSol
remove_sol_new_lamports(account, lamports) ==
    Some(U64Sub(account.lamports.val, lamports))

\* ix = [owner, is_signer, acc_index, sol_lock_key, lamports, has_receiver,
\*       receiver (Some(key) when a third account is passed)]
remove_sol(ix, L) ==
    LET receiver == assert_receiver_validity(ix.owner, ix.receiver, ix.has_receiver)
        sol_lock_key == get_sol_lock_account(ProgramId, ix.owner, ix.acc_index)
        checks == FirstErr(<<
            assert_is_signer(ix.is_signer),
            assert_keys_equal(sol_lock_key, ix.sol_lock_key),
            assert_owned_by(L.owner[ix.sol_lock_key], ProgramId),
            assert_initialized(L.owner[ix.sol_lock_key], L.data[ix.sol_lock_key]) >>)
        account == L.data[sol_lock_key]
        funds == FirstErr(<<
            assert_sufficient_funds(account, ix.lamports),
            assert_has_funds(account) >>)
        new_state == remove_sol_new_state(account, ix.lamports)
    IN  IF receiver.err # "Ok" THEN Failed(receiver.err, L)
        ELSE IF checks # "Ok" THEN Failed(checks, L)
        ELSE IF funds # "Ok" THEN Failed(funds, L)
        ELSE IF new_state \notin State THEN Failed(new_state, L)
        \* the u64 balance of the account cannot go below zero
        ELSE IF L.bal[sol_lock_key] < ix.lamports THEN Failed("Panic", L)
        ELSE Succeeded(
            [L EXCEPT !.data[sol_lock_key] =
                          [account EXCEPT
                              !.lamports = remove_sol_new_lamports(account, ix.lamports),
                              !.state = new_state],
                      !.bal = Credit(Debit(L.bal, sol_lock_key, ix.lamports),
                                     receiver.key, ix.lamports)])

\* mutant: a record without funds stays Initialized when given a deadline
set_deadline_new_state_Stays(state) ==
    CASE state = "Initialized" -> "Initialized"
      [] state = "HasFunds" -> "ReadyUnlocked"
      [] state = "HasDeadline" -> "HasDeadline"
      [] state = "ReadyUnlocked" -> "ReadyUnlocked"
      [] state = "Locked" -> "Locked"
      [] state = "Staked" -> "Locked"
      [] state = "Uninitialized" -> "Panic"

\* mutant: setting the deadline of a Locked record releases it to ReadyUnlocked
set_deadline_new_state_Unlocks(state) ==
    CASE state = "Initialized" -> "HasDeadline"
      [] state = "HasFunds" -> "ReadyUnlocked"
      [] state = "HasDeadline" -> "HasDeadline"
      [] state = "ReadyUnlocked" -> "ReadyUnlocked"
      [] state = "Locked" -> "ReadyUnlocked"
      [] state = "Staked" -> "Locked"
      [] state = "Uninitialized" -> "Panic"

set_deadline_new_state(state) ==
    CASE state = "Initialized" -> "HasDeadline"
      [] state = "HasFunds" -> "ReadyUnlocked"
      [] state = "HasDeadline" -> "HasDeadline"
      [] state = "ReadyUnlocked" -> "ReadyUnlocked"
      [] state = "Locked" -> "Locked"
      [] state = "Staked" -> "Locked"
      [] state = "Uninitialized" -> "Panic"

\* ix = [owner, is_signer, acc_index, sol_lock_key, deadline]
set_deadline(ix, L) ==
    LET sol_lock_account_key == get_sol_lock_account(ProgramId, ix.owner, ix.acc_index)
        checks == FirstErr(<<
            assert_is_signer(ix.is_signer),
            assert_keys_equal(sol_lock_account_key, ix.sol_lock_key),
            assert_owned_by(L.owner[ix.sol_lock_key], ProgramId),
            assert_initialized(L.owner[ix.sol_lock_key], L.data[ix.sol_lock_key]) >>)
        account == L.data[sol_lock_account_key]
        valid == assert_valid_new_deadline(account, ix.deadline)
        new_state == set_deadline_new_state(account.state)
    IN  IF checks # "Ok" THEN Failed(checks, L)
        ELSE IF valid # "Ok" THEN Failed(valid, L)
        ELSE IF new_state = "Panic" THEN Failed("Panic", L)
        ELSE Succeeded(
            [L EXCEPT !.data[sol_lock_account_key] =
                          [account EXCEPT !.deadline = Some(ix.deadline),
                                          !.state = new_state]])

\* mutant: ReadyUnlocked leads back to Initialized instead of Locked
lock_new_state_Initialized(state) ==
    IF state = "ReadyUnlocked" THEN "Initialized" ELSE "Panic"

lock_new_state(state) ==
    IF state = "ReadyUnlocked" THEN "Locked" ELSE "Panic"

\* ix = [owner, is_signer, acc_index, sol_lock_key]
lock(ix, L) ==
    LET sol_lock_account_key == get_sol_lock_account(ProgramId, ix.owner, ix.acc_index)
        checks == FirstErr(<<
            assert_is_signer(ix.is_signer),
            assert_keys_equal(sol_lock_account_key, ix.sol_lock_key),
            assert_owned_by(L.owner[ix.sol_lock_key], ProgramId),
            assert_initialized(L.owner[ix.sol_lock_key], L.data[ix.sol_lock_key]) >>)
        account == L.data[sol_lock_account_key]
        can_lock == assert_can_lock(account)
        new_state == lock_new_state(account.state)
    IN  IF checks # "Ok" THEN Failed(checks, L)
        ELSE IF can_lock # "Ok" THEN Failed(can_lock, L)
        ELSE IF new_state = "Panic" THEN Failed("Panic", L)
        ELSE Succeeded(
            [L EXCEPT !.data[sol_lock_account_key] =
                          [account EXCEPT !.state = new_state]])

\* mutant: Unlock returns the record to Uninitialized
unlock_new_state_Uninitialized(state) ==
    IF state = "Locked" THEN "Uninitialized" ELSE "Panic"

unlock_new_state(state) ==
    IF state = "Locked" THEN "Initialized" ELSE "Panic"

\* mutant: Unlock resets the whole record, its owner included
unlock_account_Cleared(account, new_state) ==
    [EmptyAccount EXCEPT !.state = new_state]

\* the record Unlock stores: lamports.take(), deadline = None,
\* stake_account = None, state = new_state
unlock_account(account, new_state) ==
    [account EXCEPT !.lamports = None,
                    !.deadline = None,
                    !.stake_account = NoneKey,
                    !.state = new_state]

\* ix = [owner, is_signer, acc_index, sol_lock_key, has_receiver,
\*       receiver (Some(key) when a third account is passed)]
unlock(ix, L) ==
    LET receiver == assert_receiver_validity(ix.owner, ix.receiver, ix.has_receiver)
        sol_lock_account_key == get_sol_lock_account(ProgramId, ix.owner, ix.acc_index)
        checks == FirstErr(<<
            assert_is_signer(ix.is_signer),
            assert_keys_equal(sol_lock_account_key, ix.sol_lock_key),
            assert_owned_by(L.owner[ix.sol_lock_key], ProgramId),
            assert_initialized(L.owner[ix.sol_lock_key], L.data[ix.sol_lock_key]) >>)
        account == L.data[sol_lock_account_key]
        now_ts == L.now
        can_unlock == assert_can_unlock(account, now_ts)
        new_state == unlock_new_state(account.state)
        \* sol_lock_account_data.lamports.take().unwrap()
        lamports_to_transfer == account.lamports.val
    IN  IF receiver.err # "Ok" THEN Failed(receiver.err, L)
        ELSE IF checks # "Ok" THEN Failed(checks, L)
        ELSE IF can_unlock # "Ok" THEN Failed(can_unlock, L)
        ELSE IF new_state = "Panic" \/ ~account.lamports.some THEN Failed("Panic", L)
        \* the u64 balance of the account cannot go below zero
        ELSE IF L.bal[sol_lock_account_key] < lamports_to_transfer
        THEN Failed("Panic", L)
        ELSE Succeeded(
            [L EXCEPT !.data[sol_lock_account_key] =
                          unlock_account(account, new_state),
                      !.bal = Credit(Debit(L.bal, sol_lock_account_key,
                                           lamports_to_transfer),
                                     receiver.key, lamports_to_transfer)])

\* mutant: Stake returns Ok without doing anything
stake_NoOp(ix, L) == Succeeded(L)

\* SolLockInstruction::Stake(_) | Unstake(_) => unimplemented!()
stake(ix, L) == Failed("Panic", L)
unstake(ix, L) == Failed("Panic", L)

(* ------------------------------- the ledger ---------------------------- *)
VARIABLES
    account_owner,    \* AccountInfo.owner of every SolLock address
    account_data,     \* the Account packed in every SolLock address
    balances,         \* AccountInfo.lamports of every address
    clock,            \* Clock::get().unix_timestamp
    last,             \* the instruction just processed and its outcome
    deadline_at_lock  \* history: the deadline stored when Lock last succeeded

vars == <<account_owner, account_data, balances, clock, last, deadline_at_lock>>

Ledger ==
    [owner |-> account_owner, data |-> account_data, bal |-> balances, now |-> clock]

\* the indices the callers of Spec address
ActiveIndices == {0}
ActiveKeys == {get_sol_lock_account(ProgramId, o, i) : o \in Owners, i \in ActiveIndices}
\* how the first two accounts of an instruction are passed: the owner signing
\* or not, and the address given as the SolLock account
Callers ==
    {c \in [owner : Owners, is_signer : BOOLEAN, acc_index : ActiveIndices,
            sol_lock_key : OwnerKeys] :
        c.is_signer \/ c.sol_lock_key \in ActiveKeys}
Lamports == 0..MaxLamports
Deadlines == 0..MaxTime
\* the optional fourth account of AddSol, signing or not
Payers ==
    {[key |-> NoneKey, is_signer |-> FALSE],
     [key |-> Some(Carol), is_signer |-> TRUE],
     [key |-> Some(Carol), is_signer |-> FALSE]}
\* the optional third account of RemoveSol and Unlock
Receivers == {NoneKey, Some(Carol)} \cup {Some(k) : k \in ActiveKeys}

Init ==
    /\ account_owner = [k \in Keys |-> SystemProgramId]
    /\ account_data = [k \in Keys |-> EmptyAccount]
    /\ balances = [a \in Addresses |-> IF a \in Owners THEN InitBalance ELSE 0]
    /\ clock = 0
    /\ last = [op |-> "None", err |-> "Ok"]
    /\ deadline_at_lock = [k \in Keys |-> 0]

\* The runtime commits the ledger of an instruction that returned Ok and
\* discards every write and lamport movement of one that failed.
Kept(r, L) == IF r.err = "Ok" THEN r.ledger ELSE L

Commit(op, ix, r) ==
    LET L == Kept(r, Ledger)
        key == get_sol_lock_account(ProgramId, ix.owner, ix.acc_index)
    IN  /\ account_owner' = L.owner
        /\ account_data' = L.data
        /\ balances' = L.bal
        /\ clock' = L.now
        /\ last' = [op |-> op, err |-> r.err]
        /\ deadline_at_lock' =
              IF r.err = "Ok" /\ op = "Lock"
              THEN [deadline_at_lock EXCEPT ![key] = L.data[key].deadline.val]
              ELSE deadline_at_lock

\* the instructions the callers can send
CreateAccountInputs ==
    {[owner |-> c.owner, is_signer |-> c.is_signer, acc_index |-> c.acc_index,
      sol_lock_key |-> c.sol_lock_key, system_key |-> system_key] :
        c \in Callers, system_key \in {SystemProgramId, ProgramId}}

AddSolInputs ==
    {[owner |-> c.owner, is_signer |-> c.is_signer, acc_index |-> c.acc_index,
      sol_lock_key |-> c.sol_lock_key, lamports |-> x[1], has_payer |-> x[2],
      payer |-> x[3].key, payer_is_signer |-> x[3].is_signer] :
        c \in Callers, x \in Lamports \X BOOLEAN \X Payers}

RemoveSolInputs ==
    {[owner |-> c.owner, is_signer |-> c.is_signer, acc_index |-> c.acc_index,
      sol_lock_key |-> c.sol_lock_key, lamports |-> x[1], has_receiver |-> x[2],
      receiver |-> x[3]] :
        c \in Callers, x \in Lamports \X BOOLEAN \X Receivers}

SetDeadlineInputs ==
    {[owner |-> c.owner, is_signer |-> c.is_signer, acc_index |-> c.acc_index,
      sol_lock_key |-> c.sol_lock_key, deadline |-> deadline] :
        c \in Callers, deadline \in Deadlines}

LockInputs ==
    {[owner |-> c.owner, is_signer |-> c.is_signer, acc_index |-> c.acc_index,
      sol_lock_key |-> c.sol_lock_key] : c \in Callers}

UnlockInputs ==
    {[owner |-> c.owner, is_signer |-> c.is_signer, acc_index |-> c.acc_index,
      sol_lock_key |-> c.sol_lock_key, has_receiver |-> x[1], receiver |-> x[2]] :
        c \in Callers, x \in BOOLEAN \X Receivers}

StakeInputs ==
    {[owner |-> o, acc_index |-> i] : o \in Owners, i \in ActiveIndices}

CreateAccount ==
    \E ix \in CreateAccountInputs :
        Commit("CreateAccount", ix, create_account(ix, Ledger))

AddSol ==
    \E ix \in AddSolInputs : Commit("AddSol", ix, add_sol(ix, Ledger))

RemoveSol ==
    \E ix \in RemoveSolInputs : Commit("RemoveSol", ix, remove_sol(ix, Ledger))

SetDeadline ==
    \E ix \in SetDeadlineInputs : Commit("SetDeadline", ix, set_deadline(ix, Ledger))

Lock ==
    \E ix \in LockInputs : Commit("Lock", ix, lock(ix, Ledger))

Unlock ==
    \E ix \in UnlockInputs : Commit("Unlock", ix, unlock(ix, Ledger))

Stake ==
    \E ix \in StakeInputs : Commit("Stake", ix, stake(ix, Ledger))

Unstake ==
    \E ix \in StakeInputs : Commit("Unstake", ix, unstake(ix, Ledger))

\* the cluster's clock moves on between instructions
Tick ==
    /\ clock < MaxTime
    /\ clock' = clock + 1
    /\ last' = [op |-> "Tick", err |-> "Ok"]
    /\ UNCHANGED <<account_owner, account_data, balances, deadline_at_lock>>

Next ==
    \/ CreateAccount
    \/ AddSol
    \/ RemoveSol
    \/ SetDeadline
    \/ Lock
    \/ Unlock
    \/ Stake
    \/ Unstake
    \/ Tick

Spec == Init /\ [][Next]_vars

(* ----------------------------- vocabulary ------------------------------ *)
\* the SolLock address an instruction is about
KeyOf(ix) == get_sol_lock_account(ProgramId, ix.owner, ix.acc_index)

\* the owner signs and passes the derived address
Authorized(ix) == ix.is_signer /\ ix.sol_lock_key = KeyOf(ix)

\* the counterparty flag agrees with the accounts passed
FlagAgrees(flag, account) == flag = account.some

Created(k) == account_owner[k] = ProgramId

\* the account credited by RemoveSol and Unlock
ReceiverOf(ix) == IF ix.receiver.some THEN ix.receiver.val ELSE ix.owner

LastWas(op, err) == last.op = op /\ last.err = err

(* =============================== claims ================================ *)

\* C1: value locked in a record cannot be released before its deadline.
\* In every step taken from a ledger where a record is Locked, either the
\* record stays Locked and neither its locked amount nor the lamports held
\* at its address decrease (and its deadline is not below the one stored
\* when Lock succeeded), or the step is a successful Unlock executed at a
\* time >= the stored deadline, itself >= the deadline stored at Lock.
C1_NoReleaseBeforeDeadline ==
    [][\A k \in Keys :
        account_data[k].state = "Locked" =>
            IF account_data'[k].state = "Locked"
            THEN /\ account_data'[k].lamports.val >= account_data[k].lamports.val
                 /\ balances'[k] >= balances[k]
                 /\ account_data'[k].deadline.val >= account_data[k].deadline.val
                 /\ account_data[k].deadline.val >= deadline_at_lock[k]
                 /\ deadline_at_lock'[k] = deadline_at_lock[k]
            ELSE /\ LastWas("Unlock", "Ok")'
                 /\ clock >= account_data[k].deadline.val
                 /\ account_data[k].deadline.val >= deadline_at_lock[k]]_vars

\* C1 witness: a record locked with a deadline in the future has been
\* unlocked, and its value paid out to the receiver
C1_Witness ==
    \E k \in ActiveKeys :
        /\ LastWas("Unlock", "Ok")
        /\ deadline_at_lock[k] >= 1
        /\ clock >= deadline_at_lock[k]
        /\ balances[Carol] >= 1
        /\ account_data[k].state = "Initialized"

\* C2 as stated: Unlock succeeds only when state = Locked and now >=
\* deadline; on a Locked record before the deadline it fails with
\* PrematureUnlock, in any state other than Locked it fails with
\* InvalidInstructionData, and a failed Unlock changes nothing.
C2_UnlockGating_Original ==
    \A ix \in UnlockInputs :
        LET r == unlock(ix, Ledger)
            account == account_data[KeyOf(ix)]
            valid == Authorized(ix) /\ FlagAgrees(ix.has_receiver, ix.receiver)
        IN  /\ r.err = "Ok" =>
                /\ account.state = "Locked"
                /\ clock >= account.deadline.val
            /\ (valid /\ account.state = "Locked" /\ clock < account.deadline.val) =>
                /\ r.err = "PrematureUnlock"
                /\ r.ledger = Ledger
            /\ (valid /\ account.state # "Locked") =>
                /\ r.err = "InvalidInstructionData"
                /\ r.ledger = Ledger

\* C2 amended: as stated for a created record; an Unlock addressed to a
\* record that was never created (Uninitialized) fails with IncorrectOwner,
\* not with InvalidInstructionData, and changes nothing.
C2_UnlockGating ==
    \A ix \in UnlockInputs :
        LET r == unlock(ix, Ledger)
            account == account_data[KeyOf(ix)]
            valid == Authorized(ix) /\ FlagAgrees(ix.has_receiver, ix.receiver)
        IN  /\ r.err = "Ok" =>
                /\ account.state = "Locked"
                /\ clock >= account.deadline.val
            /\ (valid /\ account.state = "Locked" /\ clock < account.deadline.val) =>
                /\ r.err = "PrematureUnlock"
                /\ r.ledger = Ledger
            /\ (valid /\ account.state \notin {"Locked", "Uninitialized"}) =>
                /\ r.err = "InvalidInstructionData"
                /\ r.ledger = Ledger
            /\ (valid /\ account.state = "Uninitialized") =>
                /\ r.err = "IncorrectOwner"
                /\ r.ledger = Ledger

\* C2 witness: an Unlock has just been refused as premature on a Locked
\* record whose deadline is still ahead
C2_Witness ==
    \E k \in ActiveKeys :
        /\ LastWas("Unlock", "PrematureUnlock")
        /\ account_data[k].state = "Locked"
        /\ clock < account_data[k].deadline.val

\* C3: a successful Unlock of a Locked record with locked amount L moves the
\* record to Initialized with lamports, deadline and stake_account absent,
\* takes exactly L lamports off the record's address and adds exactly L to
\* the receiver (the owner when no receiver is passed).
C3_UnlockEffect ==
    \A ix \in UnlockInputs :
        LET r == unlock(ix, Ledger)
            k == KeyOf(ix)
            L == account_data[k].lamports.val
        IN  r.err = "Ok" =>
                /\ r.ledger.data[k] =
                      [account_data[k] EXCEPT !.state = "Initialized",
                                              !.lamports = None,
                                              !.deadline = None,
                                              !.stake_account = NoneKey]
                /\ r.ledger.bal[k] = balances[k] - L
                /\ r.ledger.bal[ReceiverOf(ix)] = balances[ReceiverOf(ix)] + L

\* C4: Lock succeeds only when state = ReadyUnlocked, and then changes
\* nothing but the state, to Locked; in every other state it fails and
\* changes nothing.
C4_LockGating ==
    \A ix \in LockInputs :
        LET r == lock(ix, Ledger)
            k == KeyOf(ix)
        IN  /\ r.err = "Ok" =>
                /\ account_data[k].state = "ReadyUnlocked"
                /\ r.ledger = [Ledger EXCEPT !.data[k].state = "Locked"]
            /\ (Authorized(ix) /\ account_data[k].state = "ReadyUnlocked") =>
                r.err = "Ok"
            /\ account_data[k].state # "ReadyUnlocked" =>
                /\ r.err # "Ok"
                /\ r.ledger = Ledger

\* C4 witness: a Lock has just succeeded and the record is Locked
C4_Witness ==
    \E k \in ActiveKeys :
        /\ LastWas("Lock", "Ok")
        /\ account_data[k].state = "Locked"
        /\ account_data[k].lamports.some
        /\ account_data[k].deadline.some

\* the states in which a record carries a deadline
DeadlineStates == {"HasDeadline", "ReadyUnlocked", "Locked", "Staked"}

\* the states in which a record carries a locked amount
FundedStates == {"HasFunds", "ReadyUnlocked", "Locked", "Staked"}

C6_LockedAmountPresence ==
    \A k \in Keys :
        Created(k) =>
            (account_data[k].lamports.some <=> account_data[k].state \in FundedStates)

\* C7: on a created record, deadline is present if and only if state is
\* one of HasDeadline, ReadyUnlocked, Locked, Staked.
C7_DeadlinePresence ==
    \A k \in Keys :
        Created(k) =>
            (account_data[k].deadline.some <=> account_data[k].state \in DeadlineStates)

\* C7 witness: an Unlock has just cleared the deadline of a record that
\* had one, returning it to Initialized
C7_Witness ==
    \E k \in ActiveKeys :
        /\ LastWas("Unlock", "Ok")
        /\ deadline_at_lock[k] >= 1
        /\ account_data[k].state = "Initialized"
        /\ ~account_data[k].deadline.some

\* C8: whenever state is HasFunds, ReadyUnlocked or Locked, the lamports
\* held at the record's address above the rent reserve equal the locked
\* amount.
C8_BalanceEqualsLockedAmount ==
    \A k \in Keys :
        account_data[k].state \in {"HasFunds", "ReadyUnlocked", "Locked"} =>
            /\ account_data[k].lamports.some
            /\ balances[k] - RentMinimumBalance = account_data[k].lamports.val

\* C9: wherever AddSol(a) by the owner (no payer account) succeeds on a
\* created record, RemoveSol(a) by the owner (no receiver account) right
\* after it succeeds and restores the ledger as it was before the AddSol.
C9_AddThenRemoveRestores ==
    \A ix \in AddSolInputs :
        LET added == add_sol(ix, Ledger)
            back == [owner |-> ix.owner, is_signer |-> TRUE,
                     acc_index |-> ix.acc_index, sol_lock_key |-> KeyOf(ix),
                     lamports |-> ix.lamports, has_receiver |-> FALSE,
                     receiver |-> NoneKey]
            removed == remove_sol(back, added.ledger)
        IN  (Authorized(ix) /\ ~ix.has_payer /\ ~ix.payer.some /\ added.err = "Ok") =>
                /\ removed.err = "Ok"
                /\ removed.ledger = Ledger

\* C10: a successful RemoveSol(a) on a record with locked amount L >= a
\* moves exactly a lamports from the record to the receiver, leaves the
\* deadline as it was, and yields: from HasFunds, HasFunds with L - a when
\* L - a > 0, else Initialized with no locked amount; from ReadyUnlocked,
\* ReadyUnlocked with L - a when L - a > 0, else HasDeadline with no locked
\* amount.
C10_RemoveSolEffect ==
    \A ix \in RemoveSolInputs :
        LET r == remove_sol(ix, Ledger)
            k == KeyOf(ix)
            account == account_data[k]
            L == account.lamports.val
            a == ix.lamports
            emptied == IF account.state = "HasFunds" THEN "Initialized" ELSE "HasDeadline"
        IN  r.err = "Ok" =>
                /\ account.state \in {"HasFunds", "ReadyUnlocked"}
                /\ L >= a
                /\ r.ledger.bal[k] = balances[k] - a
                /\ r.ledger.bal[ReceiverOf(ix)] = balances[ReceiverOf(ix)] + a
                /\ r.ledger.data[k] =
                      IF L - a > 0
                      THEN [account EXCEPT !.lamports = Some(L - a)]
                      ELSE [account EXCEPT !.lamports = None, !.state = emptied]

\* C11: for every requested amount, a RemoveSol by the owner (flag and
\* receiver account agreeing) on a created record in state Initialized or
\* HasDeadline fails with NoFunds, and on a record in state Locked or
\* Staked fails with FundsLocked; the ledger it leaves is the ledger before.
C11_RemoveSolRejections ==
    \A ix \in RemoveSolInputs :
        LET r == remove_sol(ix, Ledger)
            account == account_data[KeyOf(ix)]
        IN  (Authorized(ix) /\ FlagAgrees(ix.has_receiver, ix.receiver)
                /\ Created(KeyOf(ix))) =>
                /\ account.state \in {"Initialized", "HasDeadline"} =>
                        r.err = "NoFunds" /\ r.ledger = Ledger
                /\ account.state \in {"Locked", "Staked"} =>
                        r.err = "FundsLocked" /\ r.ledger = Ledger

\* C12: a RemoveSol(a) by the owner on a record in HasFunds or ReadyUnlocked
\* with a above the locked amount fails with InsufficientFunds and leaves
\* the ledger as it was; a RemoveSol or Unlock that succeeds takes no more
\* than the locked amount and no more than the record holds above its rent
\* reserve, so neither subtraction goes below zero; and on every created
\* record the lamports deposited and not withdrawn (the balance above the
\* rent reserve) cover the locked amount and are never negative.
C12_NoOverdraw ==
    /\ \A ix \in RemoveSolInputs :
          LET r == remove_sol(ix, Ledger)
              k == KeyOf(ix)
              account == account_data[k]
          IN  /\ (Authorized(ix) /\ FlagAgrees(ix.has_receiver, ix.receiver)
                    /\ Created(k)
                    /\ account.state \in {"HasFunds", "ReadyUnlocked"}
                    /\ ix.lamports > account.lamports.val) =>
                      r.err = "InsufficientFunds" /\ r.ledger = Ledger
              /\ r.err = "Ok" =>
                      /\ account.lamports.some
                      /\ ix.lamports <= account.lamports.val
                      /\ ix.lamports <= balances[k] - RentMinimumBalance
                      /\ r.ledger.data[k].lamports.val = account.lamports.val - ix.lamports
                      /\ r.ledger.bal[k] >= RentMinimumBalance
    /\ \A ix \in UnlockInputs :
          LET r == unlock(ix, Ledger)
              k == KeyOf(ix)
          IN  r.err = "Ok" =>
                  /\ account_data[k].lamports.val <= balances[k] - RentMinimumBalance
                  /\ r.ledger.bal[k] >= RentMinimumBalance
    /\ \A k \in Keys :
          Created(k) =>
              /\ balances[k] >= RentMinimumBalance
              /\ account_data[k].lamports.val <= balances[k] - RentMinimumBalance

\* a RemoveSol asking for more than the locked amount was refused
C12_Witness ==
    \E k \in ActiveKeys :
        /\ LastWas("RemoveSol", "InsufficientFunds")
        /\ account_data[k].state \in {"HasFunds", "ReadyUnlocked"}
        /\ account_data[k].lamports.val = 1
        /\ balances[k] = RentMinimumBalance + 1

\* the account the lamports of AddSol are to come from: the Sol Payer account
\* when one is passed, the owner otherwise
PayerOf(ix) == IF ix.payer.some THEN ix.payer.val ELSE ix.owner

\* an AddSol that meets every stated requirement: the owner signs and passes
\* the derived address of a created record, the flag agrees with the
\* accounts passed, a passed payer signs, and the payer holds the amount
ValidAddSol(ix) ==
    /\ Authorized(ix)
    /\ FlagAgrees(ix.has_payer, ix.payer)
    /\ ix.payer.some => ix.payer_is_signer
    /\ Created(KeyOf(ix))
    /\ balances[PayerOf(ix)] >= ix.lamports

\* the record a successful AddSol(a) is to leave
AddSolResult(account, a) ==
    [account EXCEPT
        !.state = CASE account.state = "Initialized" -> "HasFunds"
                    [] account.state = "HasFunds" -> "HasFunds"
                    [] account.state = "HasDeadline" -> "ReadyUnlocked"
                    [] account.state = "ReadyUnlocked" -> "ReadyUnlocked"
                    [] account.state = "Locked" -> "Locked"
                    [] account.state = "Staked" -> "Staked",
        !.lamports = IF account.lamports.some
                     THEN Some(account.lamports.val + a)
                     ELSE Some(a)]

\* C13: a valid AddSol(a) succeeds in every state of a created record,
\* changes only state and lamports of the record as the transitions
\* Initialized->HasFunds, HasFunds->HasFunds, HasDeadline->ReadyUnlocked,
\* ReadyUnlocked->ReadyUnlocked, Locked->Locked, Staked->Staked say, with
\* lamports a if it was absent and old + a otherwise, and adds exactly a to
\* the lamports held at the record's address.
C13_AddSolEffect ==
    \A ix \in AddSolInputs :
        LET r == add_sol(ix, Ledger)
            k == KeyOf(ix)
        IN  ValidAddSol(ix) =>
                /\ r.err = "Ok"
                /\ r.ledger.data[k] = AddSolResult(account_data[k], ix.lamports)
                /\ r.ledger.bal[k] = balances[k] + ix.lamports

\* the state a successful SetDeadline is to leave
SetDeadlineResult(state) ==
    CASE state = "Initialized" -> "HasDeadline"
      [] state = "HasFunds" -> "ReadyUnlocked"
      [] state = "HasDeadline" -> "HasDeadline"
      [] state = "ReadyUnlocked" -> "ReadyUnlocked"
      [] state = "Locked" -> "Locked"
      [] state = "Staked" -> "Locked"

\* C14: a SetDeadline(t) by the owner on a created record whose stored
\* deadline, if any, is not above t succeeds; a SetDeadline(t) that succeeds
\* changes nothing in the ledger but the record's deadline, which becomes
\* t, and its state, which changes as Initialized->HasDeadline,
\* HasFunds->ReadyUnlocked, HasDeadline->HasDeadline,
\* ReadyUnlocked->ReadyUnlocked, Locked->Locked, Staked->Locked: lamports
\* and every balance stay, and a Locked record stays Locked.
C14_SetDeadlineEffect ==
    \A ix \in SetDeadlineInputs :
        LET r == set_deadline(ix, Ledger)
            k == KeyOf(ix)
            account == account_data[k]
        IN  /\ (Authorized(ix) /\ Created(k)
                  /\ (account.deadline.some => ix.deadline >= account.deadline.val)) =>
                    r.err = "Ok"
            /\ r.err = "Ok" =>
                    r.ledger =
                        [Ledger EXCEPT !.data[k] =
                            [account EXCEPT !.deadline = Some(ix.deadline),
                                            !.state = SetDeadlineResult(account.state)]]

\* the deadline of a Locked record was extended and the record is Locked
C14_Witness ==
    \E k \in ActiveKeys :
        /\ LastWas("SetDeadline", "Ok")
        /\ account_data[k].state = "Locked"
        /\ account_data[k].deadline.val > deadline_at_lock[k]

\* C15: a CreateAccount that succeeds was signed by the owner, addressed a
\* record that did not exist (Uninitialized, not owned by the program) and
\* leaves it owned by the program in state Initialized with the caller as
\* owner and lamports, deadline and stake_account absent; a CreateAccount
\* addressed to a record that exists fails and leaves the ledger as it was.
C15_CreateOnce ==
    \A ix \in CreateAccountInputs :
        LET r == create_account(ix, Ledger)
            k == KeyOf(ix)
        IN  /\ r.err = "Ok" =>
                    /\ Authorized(ix)
                    /\ ~Created(k)
                    /\ account_data[k].state = "Uninitialized"
                    /\ r.ledger.owner[k] = ProgramId
                    /\ r.ledger.data[k] =
                          [owner |-> ix.owner, lamports |-> None, deadline |-> None,
                           stake_account |-> NoneKey, state |-> "Initialized"]
                    /\ \A j \in Keys \ {k} :
                          /\ r.ledger.owner[j] = account_owner[j]
                          /\ r.ledger.data[j] = account_data[j]
            /\ (Created(k) \/ Created(ix.sol_lock_key)) =>
                    r.err # "Ok" /\ r.ledger = Ledger

\* a CreateAccount on a record that exists, and is Locked, was refused
C15_Witness ==
    \E k \in ActiveKeys :
        /\ LastWas("CreateAccount", "AccountAlreadyInUse")
        /\ account_data[k].state = "Locked"
        /\ account_data[k].lamports.val > 0

C18_AddSolDebitsPayer ==
    \A ix \in AddSolInputs :
        LET r == add_sol(ix, Ledger)
        IN  r.err = "Ok" =>
                /\ r.ledger.bal[PayerOf(ix)] = balances[PayerOf(ix)] - ix.lamports
                /\ PayerOf(ix) # ix.owner =>
                        r.ledger.bal[ix.owner] = balances[ix.owner]

\* C19: a successful RemoveSol(a) or Unlock takes the withdrawn amount (a,
\* or the whole locked amount) off the record's balance and adds it to the
\* owner's when no Sol Receiver account is passed, and to the receiver's
\* when one is passed with has_receiver true, the owner's balance then
\* staying as it was; no other balance changes.
C19_WithdrawalCreditsReceiver ==
    /\ \A ix \in RemoveSolInputs :
          LET r == remove_sol(ix, Ledger)
              k == KeyOf(ix)
              to == ReceiverOf(ix)
          IN  r.err = "Ok" =>
                  /\ r.ledger.bal[k] = balances[k] - ix.lamports
                  /\ r.ledger.bal[to] = balances[to] + ix.lamports
                  /\ \A other \in Addresses \ {k, to} :
                        r.ledger.bal[other] = balances[other]
    /\ \A ix \in UnlockInputs :
          LET r == unlock(ix, Ledger)
              k == KeyOf(ix)
              to == ReceiverOf(ix)
              amount == account_data[k].lamports.val
          IN  r.err = "Ok" =>
                  /\ r.ledger.bal[k] = balances[k] - amount
                  /\ r.ledger.bal[to] = balances[to] + amount
                  /\ \A other \in Addresses \ {k, to} :
                        r.ledger.bal[other] = balances[other]

\* every instruction the callers can send, with the outcome of its handler
\* on the current ledger
Outcomes ==
    {create_account(ix, Ledger) : ix \in CreateAccountInputs}
        \cup {add_sol(ix, Ledger) : ix \in AddSolInputs}
        \cup {remove_sol(ix, Ledger) : ix \in RemoveSolInputs}
        \cup {set_deadline(ix, Ledger) : ix \in SetDeadlineInputs}
        \cup {lock(ix, Ledger) : ix \in LockInputs}
        \cup {unlock(ix, Ledger) : ix \in UnlockInputs}
        \cup {stake(ix, Ledger) : ix \in StakeInputs}
        \cup {unstake(ix, Ledger) : ix \in StakeInputs}

\* C20: whatever the instruction, its arguments and the reachable ledger, a
\* handler that fails has at that point written no record and moved no
\* lamports, and a step that processes a failing instruction leaves every
\* record (owner and stored fields) and every balance as before the call.
C20_FailureChangesNothing ==
    /\ [](\A r \in Outcomes : r.err # "Ok" => r.ledger = Ledger)
    /\ [][last'.err # "Ok" =>
              UNCHANGED <<account_owner, account_data, balances, clock>>]_vars

\* an AddSol on a funded record failed at its last step, the transfer
C20_Witness ==
    \E k \in ActiveKeys :
        /\ LastWas("AddSol", "InsufficientLamports")
        /\ account_data[k].state = "Locked"
        /\ account_data[k].lamports.val > 0

(* ================= several identities, several records ================= *)
\* Two wallets sign instructions, and three records are addressed: two
\* indices of one owner and one record of the other wallet.
MultiRecords == (Owners \X Indices) \cup ({Carol} \X ActiveIndices)
MultiKeys == {get_sol_lock_account(ProgramId, a[1], a[2]) : a \in MultiRecords}

\* the first two accounts of an instruction: the owner of a record signing
\* and passing its address; the owner named but not signing; another wallet
\* signing as owner and passing the address of a record that is not its own
MultiCallers ==
    {[owner |-> a[1], is_signer |-> b, acc_index |-> a[2],
      sol_lock_key |-> get_sol_lock_account(ProgramId, a[1], a[2])] :
        a \in MultiRecords, b \in BOOLEAN}
    \cup
    {[owner |-> x[2], is_signer |-> TRUE, acc_index |-> x[1][2],
      sol_lock_key |-> get_sol_lock_account(ProgramId, x[1][1], x[1][2])] :
        x \in {y \in MultiRecords \X Identities : y[2] # y[1][1]}}

\* the optional Sol Receiver account: none, or the address of the owner's
\* second record
MultiReceivers ==
    {NoneKey} \cup {Some(get_sol_lock_account(ProgramId, o, i)) :
                        o \in Owners, i \in Indices \ ActiveIndices}
\* the amounts and the deadlines these callers use
MultiLamports == {1}
MultiDeadlines == {0}

MultiCreateAccountInputs ==
    {[owner |-> c.owner, is_signer |-> c.is_signer, acc_index |-> c.acc_index,
      sol_lock_key |-> c.sol_lock_key, system_key |-> SystemProgramId] :
        c \in MultiCallers}

MultiAddSolInputs ==
    {[owner |-> c.owner, is_signer |-> c.is_signer, acc_index |-> c.acc_index,
      sol_lock_key |-> c.sol_lock_key, lamports |-> a, has_payer |-> FALSE,
      payer |-> NoneKey, payer_is_signer |-> FALSE] :
        c \in MultiCallers, a \in MultiLamports}

MultiRemoveSolInputs ==
    {[owner |-> c.owner, is_signer |-> c.is_signer, acc_index |-> c.acc_index,
      sol_lock_key |-> c.sol_lock_key, lamports |-> a,
      has_receiver |-> to.some, receiver |-> to] :
        c \in MultiCallers, a \in MultiLamports, to \in MultiReceivers}

MultiSetDeadlineInputs ==
    {[owner |-> c.owner, is_signer |-> c.is_signer, acc_index |-> c.acc_index,
      sol_lock_key |-> c.sol_lock_key, deadline |-> deadline] :
        c \in MultiCallers, deadline \in MultiDeadlines}

MultiLockInputs ==
    {[owner |-> c.owner, is_signer |-> c.is_signer, acc_index |-> c.acc_index,
      sol_lock_key |-> c.sol_lock_key] : c \in MultiCallers}

MultiUnlockInputs ==
    {[owner |-> c.owner, is_signer |-> c.is_signer, acc_index |-> c.acc_index,
      sol_lock_key |-> c.sol_lock_key, has_receiver |-> to.some, receiver |-> to] :
        c \in MultiCallers, to \in MultiReceivers}

MultiStakeInputs == {[owner |-> a[1], acc_index |-> a[2]] : a \in MultiRecords}

InitMulti ==
    /\ account_owner = [k \in Keys |-> SystemProgramId]
    /\ account_data = [k \in Keys |-> EmptyAccount]
    /\ balances =
          [a \in Addresses |->
              IF a \in Owners THEN InitBalance
              ELSE IF a = Carol THEN RentMinimumBalance
              ELSE 0]
    /\ clock = 0
    /\ last = [op |-> "None", err |-> "Ok"]
    /\ deadline_at_lock = [k \in Keys |-> 0]

MultiCreateAccount ==
    \E ix \in MultiCreateAccountInputs :
        Commit("CreateAccount", ix, create_account(ix, Ledger))

MultiAddSol ==
    \E ix \in MultiAddSolInputs : Commit("AddSol", ix, add_sol(ix, Ledger))

MultiRemoveSol ==
    \E ix \in MultiRemoveSolInputs : Commit("RemoveSol", ix, remove_sol(ix, Ledger))

MultiSetDeadline ==
    \E ix \in MultiSetDeadlineInputs :
        Commit("SetDeadline", ix, set_deadline(ix, Ledger))

MultiLock ==
    \E ix \in MultiLockInputs : Commit("Lock", ix, lock(ix, Ledger))

MultiUnlock ==
    \E ix \in MultiUnlockInputs : Commit("Unlock", ix, unlock(ix, Ledger))

MultiStake ==
    \E ix \in MultiStakeInputs : Commit("Stake", ix, stake(ix, Ledger))

MultiUnstake ==
    \E ix \in MultiStakeInputs : Commit("Unstake", ix, unstake(ix, Ledger))

NextMulti ==
    \/ MultiCreateAccount
    \/ MultiAddSol
    \/ MultiRemoveSol
    \/ MultiSetDeadline
    \/ MultiLock
    \/ MultiUnlock
    \/ MultiStake
    \/ MultiUnstake
    \/ Tick

SpecMulti == InitMulti /\ [][NextMulti]_vars

\* the first two accounts of an instruction
CallerOf(ix) ==
    [owner |-> ix.owner, is_signer |-> ix.is_signer, acc_index |-> ix.acc_index,
     sol_lock_key |-> ix.sol_lock_key]

\* every instruction of the six implemented operations that the several
\* identities can send, as its caller and the outcome of its handler on the
\* current ledger
MultiOutcomes ==
    {[c |-> CallerOf(ix), r |-> create_account(ix, Ledger)] :
        ix \in MultiCreateAccountInputs}
    \cup {[c |-> CallerOf(ix), r |-> add_sol(ix, Ledger)] : ix \in MultiAddSolInputs}
    \cup {[c |-> CallerOf(ix), r |-> remove_sol(ix, Ledger)] :
            ix \in MultiRemoveSolInputs}
    \cup {[c |-> CallerOf(ix), r |-> set_deadline(ix, Ledger)] :
            ix \in MultiSetDeadlineInputs}
    \cup {[c |-> CallerOf(ix), r |-> lock(ix, Ledger)] : ix \in MultiLockInputs}
    \cup {[c |-> CallerOf(ix), r |-> unlock(ix, Ledger)] : ix \in MultiUnlockInputs}

\* C21: an instruction of any of the six operations whose named owner does
\* not sign, or whose SolLock address is not the one derived from (owner,
\* index, program), fails and leaves the ledger as it was. Every created
\* record names as owner the wallet its address derives from, and an
\* instruction in which that owner is not the signing caller leaves the
\* record (storage owner and stored fields) as it was and does not lower
\* the lamports held at its address.
C21_OnlyOwnerSignerActs ==
    /\ \A a \in Identities \X Indices :
          LET k == get_sol_lock_account(ProgramId, a[1], a[2])
          IN  Created(k) => account_data[k].owner = a[1]
    /\ \A o \in MultiOutcomes :
          /\ ~Authorized(o.c) => (o.r.err # "Ok" /\ o.r.ledger = Ledger)
          /\ \A k \in Keys :
                (Created(k)
                    /\ ~(o.c.is_signer /\ o.c.owner = account_data[k].owner)) =>
                    /\ o.r.ledger.owner[k] = account_owner[k]
                    /\ o.r.ledger.data[k] = account_data[k]
                    /\ o.r.ledger.bal[k] >= balances[k]

\* another wallet signed an Unlock passing the address of a Locked, funded
\* record that is not its own, while holding a record of its own
C21_Witness ==
    \E k \in MultiKeys :
        /\ LastWas("Unlock", "PublicKeyMismatch")
        /\ account_data[k].state = "Locked"
        /\ account_data[k].owner \in Owners
        /\ account_data[k].lamports.val > 0
        /\ clock >= account_data[k].deadline.val
        /\ Created(get_sol_lock_account(ProgramId, Carol, 0))

\* the outcomes of AddSol, RemoveSol, SetDeadline, Lock and Unlock on the
\* current ledger, each with the address its caller derives
OutcomesAfterCreate ==
    {[k |-> KeyOf(ix), r |-> add_sol(ix, Ledger)] : ix \in AddSolInputs}
    \cup {[k |-> KeyOf(ix), r |-> remove_sol(ix, Ledger)] : ix \in RemoveSolInputs}
    \cup {[k |-> KeyOf(ix), r |-> set_deadline(ix, Ledger)] : ix \in SetDeadlineInputs}
    \cup {[k |-> KeyOf(ix), r |-> lock(ix, Ledger)] : ix \in LockInputs}
    \cup {[k |-> KeyOf(ix), r |-> unlock(ix, Ledger)] : ix \in UnlockInputs}

C23_OwnerImmutable ==
    /\ [](/\ \A r \in Outcomes : \A k \in Keys :
                Created(k) => r.ledger.data[k].owner = account_data[k].owner
          /\ \A a \in Identities \X Indices :
                LET k == get_sol_lock_account(ProgramId, a[1], a[2])
                IN  Created(k) => account_data[k].owner = a[1])
    /\ [][\A k \in Keys :
            Created(k) => account_data'[k].owner = account_data[k].owner]_vars

\* a record went through Lock and Unlock and still names its owner
C23_Witness ==
    \E k \in ActiveKeys :
        /\ LastWas("Unlock", "Ok")
        /\ account_data[k].state = "Initialized"
        /\ account_data[k].owner \in Owners

\* C24: an instruction addressed to (owner, i), whether it succeeds or
\* fails, returns a ledger in which every other created record has the
\* storage owner, the stored fields and the balance it had.
C24_RecordsIndependent ==
    \A o \in MultiOutcomes :
        \A j \in {k \in Keys : Created(k)} \ {KeyOf(o.c)} :
            /\ o.r.ledger.owner[j] = account_owner[j]
            /\ o.r.ledger.data[j] = account_data[j]
            /\ o.r.ledger.bal[j] = balances[j]

\* C25: the image pack_into_slice writes for the record stored at any
\* created address, and for the record any handler stores, is 84 bytes
\* long, and unpack_from_slice reads from it, without error, the same owner,
\* the same presence and value of lamports, deadline and stake_account and
\* the same state.
C25_PackRoundTrip ==
    /\ \A k \in Keys :
          Created(k) =>
              /\ Len(pack_into_slice(account_data[k])) = 84
              /\ unpack_from_slice(pack_into_slice(account_data[k])) =
                    [err |-> "Ok", account |-> account_data[k]]
    /\ \A r \in Outcomes : \A k \in Keys :
          r.ledger.owner[k] = ProgramId =>
              unpack_from_slice(pack_into_slice(r.ledger.data[k])) =
                  [err |-> "Ok", account |-> r.ledger.data[k]]

\* a Locked record, with lamports and a deadline present and not zero
C25_Witness ==
    \E k \in ActiveKeys :
        /\ LastWas("Lock", "Ok")
        /\ account_data[k].state = "Locked"
        /\ account_data[k].lamports.val > 0
        /\ account_data[k].deadline.val > 0

(* ============================== progress =============================== *)
\* The owner keeps sending Unlock, signed and well formed, and the clock
\* keeps advancing.
OwnerUnlock ==
    \E ix \in UnlockInputs :
        /\ Authorized(ix)
        /\ FlagAgrees(ix.has_receiver, ix.receiver)
        /\ Commit("Unlock", ix, unlock(ix, Ledger))

SpecLive ==
    Init /\ [][Next]_vars /\ WF_vars(Tick) /\ WF_vars(OwnerUnlock)

\* the ledgers one successful instruction, or one advance of the clock,
\* leads to
SuccessorLedgers ==
    {r.ledger : r \in {o \in Outcomes : o.err = "Ok"}}
        \cup (IF clock < MaxTime THEN {[Ledger EXCEPT !.now = clock + 1]} ELSE {})

\* an upper bound of the number of steps that bring the record at k back to
\* Initialized: SetDeadline or AddSol to ReadyUnlocked, Lock, the advances
\* of the clock up to the deadline, Unlock
RecoveryRank(L, k) ==
    LET account == L.data[k]
        wait == IF account.deadline.some /\ account.deadline.val > L.now
                THEN account.deadline.val - L.now ELSE 0
    IN  CASE account.state = "Initialized" -> 0
          [] account.state = "Locked" -> 1 + wait
          [] account.state = "ReadyUnlocked" -> 2 + wait
          [] account.state \in {"HasFunds", "HasDeadline"} -> 3 + MaxTime
          [] OTHER -> 4 + MaxTime

\* C26: in every reachable ledger some instruction succeeds on every
\* created record, and every created record that is not Initialized has a
\* successful instruction or an advance of the clock that brings it
\* strictly closer to Initialized (so a finite sequence of them brings it
\* back); and if the clock keeps advancing and the owner keeps sending
\* Unlock, a record that is Locked with deadline D eventually is
\* Initialized, unless its deadline was extended beyond D.
C26_InitializedReenterable ==
    /\ [](\A k \in Keys :
            Created(k) =>
                /\ \E r \in Outcomes : r.err = "Ok" /\ r.ledger.owner[k] = ProgramId
                /\ account_data[k].state # "Initialized" =>
                      \E L \in SuccessorLedgers :
                          RecoveryRank(L, k) < RecoveryRank(Ledger, k))
    /\ \A k \in ActiveKeys : \A D \in Deadlines :
          (account_data[k].state = "Locked" /\ account_data[k].deadline.val = D)
              ~> (\/ account_data[k].state = "Initialized"
                  \/ account_data[k].state = "Locked"
                         /\ account_data[k].deadline.val > D)

\* a record that was Locked until the last moment of the clock is back in
\* Initialized
C26_Witness ==
    \E k \in ActiveKeys :
        /\ LastWas("Unlock", "Ok")
        /\ account_data[k].state = "Initialized"
        /\ deadline_at_lock[k] = MaxTime
        /\ clock = MaxTime

\* ---------------------------------------------------------------------
\* program order inside a handler
\* ---------------------------------------------------------------------

\* One statement of a handler: can_fail when it holds a `?`, an unwrap(), an
\* unreachable!() arm or an early return Err; effect when it moves lamports
\* or writes the stored record.  Assignments to the unpacked Account are
\* writes to a local copy: with_mut_data stores it only when the closure
\* has returned Ok.
Step(name, can_fail, effect) ==
    [step |-> name, can_fail |-> can_fail, effect |-> effect]

create_account_order ==
    << Step("assert_is_signer", TRUE, FALSE),
       Step("assert_keys_equal", TRUE, FALSE),
       Step("assert_owned_by", TRUE, FALSE),
       Step("Rent::get", TRUE, FALSE),
       Step("invoke_signed create_account", TRUE, TRUE),
       Step("pack_into_slice", FALSE, TRUE) >>

add_sol_order ==
    << Step("payer flag match", TRUE, FALSE),
       Step("assert_is_signer owner", TRUE, FALSE),
       Step("assert_is_signer payer", TRUE, FALSE),
       Step("assert_keys_equal", TRUE, FALSE),
       Step("assert_owned_by", TRUE, FALSE),
       Step("assert_initialized", TRUE, FALSE),
       Step("unpack", TRUE, FALSE),
       Step("invoke transfer", TRUE, TRUE),
       Step("match new_state", TRUE, FALSE),
       Step("match lamports", TRUE, FALSE),
       Step("pack_into_slice", FALSE, TRUE) >>

remove_sol_order ==
    << Step("assert_receiver_validity", TRUE, FALSE),
       Step("assert_is_signer", TRUE, FALSE),
       Step("assert_keys_equal", TRUE, FALSE),
       Step("assert_owned_by", TRUE, FALSE),
       Step("assert_initialized", TRUE, FALSE),
       Step("unpack", TRUE, FALSE),
       Step("assert_sufficient_funds", TRUE, FALSE),
       Step("assert_has_funds", TRUE, FALSE),
       Step("match new_state", TRUE, FALSE),
       Step("match lamports", TRUE, FALSE),
       Step("debit sol_lock_account", TRUE, TRUE),
       Step("credit receiver", TRUE, TRUE),
       Step("pack_into_slice", FALSE, TRUE) >>

set_deadline_order ==
    << Step("assert_is_signer", TRUE, FALSE),
       Step("assert_keys_equal", TRUE, FALSE),
       Step("assert_owned_by", TRUE, FALSE),
       Step("assert_initialized", TRUE, FALSE),
       Step("unpack", TRUE, FALSE),
       Step("assert_valid_new_deadline", TRUE, FALSE),
       Step("match new_state", TRUE, FALSE),
       Step("match deadline", TRUE, FALSE),
       Step("pack_into_slice", FALSE, TRUE) >>

lock_order ==
    << Step("assert_is_signer", TRUE, FALSE),
       Step("assert_keys_equal", TRUE, FALSE),
       Step("assert_owned_by", TRUE, FALSE),
       Step("assert_initialized", TRUE, FALSE),
       Step("unpack", TRUE, FALSE),
       Step("assert_can_lock", TRUE, FALSE),
       Step("match state", TRUE, FALSE),
       Step("pack_into_slice", FALSE, TRUE) >>

unlock_order ==
    << Step("assert_receiver_validity", TRUE, FALSE),
       Step("assert_is_signer", TRUE, FALSE),
       Step("assert_keys_equal", TRUE, FALSE),
       Step("assert_owned_by", TRUE, FALSE),
       Step("assert_initialized", TRUE, FALSE),
       Step("unpack", TRUE, FALSE),
       Step("Clock::get", TRUE, FALSE),
       Step("assert_can_unlock", TRUE, FALSE),
       Step("match new_state", TRUE, FALSE),
       Step("match lamports_to_transfer", TRUE, FALSE),
       Step("debit sol_lock_account", TRUE, TRUE),
       Step("credit receiver", TRUE, TRUE),
       Step("pack_into_slice", FALSE, TRUE) >>

ImplementedOps ==
    {"CreateAccount", "AddSol", "RemoveSol", "SetDeadline", "Lock", "Unlock"}

program_order(op) ==
    CASE op = "CreateAccount" -> create_account_order
      [] op = "AddSol" -> add_sol_order
      [] op = "RemoveSol" -> remove_sol_order
      [] op = "SetDeadline" -> set_deadline_order
      [] op = "Lock" -> lock_order
      [] op = "Unlock" -> unlock_order

\* No statement that can fail comes after the first statement with an effect.
ChecksPrecedeEffects(order) ==
    \A i \in 1..Len(order) : \A j \in 1..Len(order) :
        (i < j /\ order[i].effect) => ~order[j].can_fail

\* C27: in each of the six implemented operations every check that can
\* reject the call and every computation that can abort is completed before
\* the operation's first transfer or record write: a call that ran to its
\* end executed no statement that can fail after a statement with an effect.
C27_ChecksBeforeEffects ==
    \A op \in ImplementedOps :
        LastWas(op, "Ok") => ChecksPrecedeEffects(program_order(op))

\* ---------------------------------------------------------------------
\* conservation of lamports
\* ---------------------------------------------------------------------

RECURSIVE SumOver(_, _)
SumOver(bal, keys) ==
    IF keys = {} THEN 0
    ELSE LET k == CHOOSE x \in keys : TRUE
         IN  bal[k] + SumOver(bal, keys \ {k})

TotalLamports(bal) == SumOver(bal, DOMAIN bal)

\* The accounts an instruction names: the owner, the record, and the payer
\* or the receiver when one is passed.
PartiesOf(ix, counterparty) ==
    {ix.owner, ix.sol_lock_key} \cup (IF counterparty.some THEN {counterparty.val} ELSE {})

TransferOutcomes ==
    {[parties |-> PartiesOf(ix, NoneKey), r |-> create_account(ix, Ledger)] :
        ix \in CreateAccountInputs}
    \cup {[parties |-> PartiesOf(ix, ix.payer), r |-> add_sol(ix, Ledger)] :
            ix \in AddSolInputs}
    \cup {[parties |-> PartiesOf(ix, ix.receiver), r |-> remove_sol(ix, Ledger)] :
            ix \in RemoveSolInputs}
    \cup {[parties |-> PartiesOf(ix, NoneKey), r |-> set_deadline(ix, Ledger)] :
            ix \in SetDeadlineInputs}
    \cup {[parties |-> PartiesOf(ix, NoneKey), r |-> lock(ix, Ledger)] :
            ix \in LockInputs}
    \cup {[parties |-> PartiesOf(ix, ix.receiver), r |-> unlock(ix, Ledger)] :
            ix \in UnlockInputs}

\* C28: every operation conserves total value: whatever the instruction and
\* whether it succeeds or fails, the balances of the owner, the record, the
\* payer and the receiver add up to the same sum after it as before it, no
\* other balance changes, and so the total over all accounts is the same
\* across every step of every run.
C28_ValueConserved ==
    /\ [](\A o \in TransferOutcomes :
            /\ SumOver(o.r.ledger.bal, o.parties) = SumOver(balances, o.parties)
            /\ \A k \in Addresses \ o.parties : o.r.ledger.bal[k] = balances[k])
    /\ [][TotalLamports(balances') = TotalLamports(balances)]_vars

C28_Witness ==
    /\ LastWas("Unlock", "Ok")
    /\ \E k \in ActiveKeys :
          /\ balances[k] = RentMinimumBalance
          /\ balances[account_data[k].owner] = InitBalance - RentMinimumBalance
    /\ TotalLamports(balances) = InitBalance * Cardinality(Owners)

\* ---------------------------------------------------------------------
\* internal-consistency failures
\* ---------------------------------------------------------------------

\* C29: for the six implemented operations no call on a reachable ledger
\* aborts by panic, whatever its arguments: no unreachable!() arm is run and
\* no absent lamports or deadline is unwrapped, so a rejected call returns a
\* tagged error, and no step of a run records a panic of one of the six.
C29_NoPanic ==
    /\ \A o \in TransferOutcomes : o.r.err # "Panic"
    /\ last.op \in ImplementedOps => last.err # "Panic"

\* ---------------------------------------------------------------------
\* a record back in Initialized
\* ---------------------------------------------------------------------

\* The record create_account stores for an owner.
fresh_account(owner) ==
    [owner |-> owner, lamports |-> None, deadline |-> None,
     state |-> "Initialized", stake_account |-> NoneKey]

\* The ledger with the record at k replaced by a freshly created one of the
\* same owner.
FreshLedger(L, k) == [L EXCEPT !.data[k] = fresh_account(L.data[k].owner)]

\* C30: a created record that is Initialized, whether it was just created,
\* came back by Unlock or came back by a full withdrawal, stores exactly the
\* fields of a freshly created record of its owner (lamports, deadline and
\* stake_account absent), and every instruction gives on it the result and
\* the ledger it gives on the fresh record, SetDeadline with any deadline
\* included.
C30_ReturnedIsFresh ==
    \A k \in Keys :
        (Created(k) /\ account_data[k].state = "Initialized") =>
            /\ account_data[k] = fresh_account(account_data[k].owner)
            /\ \A ix \in AddSolInputs :
                  add_sol(ix, Ledger) = add_sol(ix, FreshLedger(Ledger, k))
            /\ \A ix \in RemoveSolInputs :
                  remove_sol(ix, Ledger) = remove_sol(ix, FreshLedger(Ledger, k))
            /\ \A ix \in SetDeadlineInputs :
                  set_deadline(ix, Ledger) = set_deadline(ix, FreshLedger(Ledger, k))
            /\ \A ix \in LockInputs :
                  lock(ix, Ledger) = lock(ix, FreshLedger(Ledger, k))
            /\ \A ix \in UnlockInputs :
                  unlock(ix, Ledger) = unlock(ix, FreshLedger(Ledger, k))

\* ---------------------------------------------------------------------
\* funds-bearing states
\* ---------------------------------------------------------------------

FundsBearing == {"HasFunds", "ReadyUnlocked", "Locked"}

\* C31: in every reachable state a record whose state is HasFunds,
\* ReadyUnlocked or Locked stores an amount that is present and greater than
\* zero; in particular a successful Lock never produces a record holding no
\* funds, and no successful AddSol or RemoveSol leaves a funds-bearing
\* state with a zero amount.
C31_FundsBearingPositive ==
    /\ \A k \in Keys :
          account_data[k].state \in FundsBearing =>
              account_data[k].lamports.some /\ account_data[k].lamports.val > 0
    /\ \A o \in OutcomesAfterCreate :
          (o.r.err = "Ok" /\ o.r.ledger.data[o.k].state \in FundsBearing) =>
              o.r.ledger.data[o.k].lamports.val > 0

\* ---------------------------------------------------------------------
\* AddSol and SetDeadline in either order
\* ---------------------------------------------------------------------

\* AddSol(a) then SetDeadline(d), from the ledger L
add_then_deadline(a, d, L) ==
    LET first == add_sol(a, L)
    IN  IF first.err # "Ok" THEN first ELSE set_deadline(d, first.ledger)

\* SetDeadline(d) then AddSol(a), from the ledger L
deadline_then_add(a, d, L) ==
    LET first == set_deadline(d, L)
    IN  IF first.err # "Ok" THEN first ELSE add_sol(a, first.ledger)

\* C32: AddSol and SetDeadline commute: on every reachable ledger, for every
\* AddSol(a) and SetDeadline(t) such that both instructions succeed in both
\* orders, the two orders end in the same ledger (every record and every
\* balance); when the record addressed by both was Initialized, both orders
\* end in ReadyUnlocked with lamports = a and deadline = t.
C32_AddSolSetDeadlineCommute ==
    \A a \in AddSolInputs :
        add_sol(a, Ledger).err = "Ok" =>
            \A d \in SetDeadlineInputs :
                LET ad == add_then_deadline(a, d, Ledger)
                    da == deadline_then_add(a, d, Ledger)
                IN  (ad.err = "Ok" /\ da.err = "Ok") =>
                        /\ ad.ledger = da.ledger
                        /\ (KeyOf(a) = KeyOf(d)
                              /\ account_data[KeyOf(a)].state = "Initialized") =>
                                /\ ad.ledger.data[KeyOf(a)].state = "ReadyUnlocked"
                                /\ ad.ledger.data[KeyOf(a)].lamports = Some(a.lamports)
                                /\ ad.ledger.data[KeyOf(a)].deadline = Some(d.deadline)

\* a record that was given its deadline first and its funds second
C32_Witness ==
    /\ LastWas("AddSol", "Ok")
    /\ \E k \in ActiveKeys :
          /\ account_data[k].state = "ReadyUnlocked"
          /\ account_data[k].lamports = Some(MaxLamports)
          /\ account_data[k].deadline = Some(MaxTime)
          /\ balances[k] = RentMinimumBalance + MaxLamports

\* ---------------------------------------------------------------------
\* the addition of add_sol
\* ---------------------------------------------------------------------

\* the states in which add_sol adds to the stored amount
Accumulating == {"HasFunds", "ReadyUnlocked", "Locked", "Staked"}

\* C33: with the total of all balances below the u64 range, the sum
\* lamports + amount computed by AddSol after its transfer stays in the u64
\* range on every reachable ledger: the stored amount of a record never
\* exceeds what the record holds above its rent, so once the transfer from
\* the owner has succeeded the sum is at most the total; the amount stored
\* is the exact sum, and AddSol does not abort once the transfer is made.
C33_AddSolNoOverflow ==
    TotalLamports(balances) < U64Modulus =>
        /\ \A k \in Keys :
              (Created(k) /\ account_data[k].lamports.some) =>
                  account_data[k].lamports.val + RentMinimumBalance <= balances[k]
        /\ \A a \in AddSolInputs :
              LET r == add_sol(a, Ledger)
                  account == account_data[KeyOf(a)]
              IN  /\ r.err # "Panic"
                  /\ (r.err = "Ok" /\ account.state \in Accumulating) =>
                        /\ account.lamports.val + a.lamports < U64Modulus
                        /\ account.lamports.val + a.lamports <= TotalLamports(balances)
                        /\ r.ledger.data[KeyOf(a)].lamports
                              = Some(account.lamports.val + a.lamports)

\* everything the owner had above the rent is stored in the record
C33_Witness ==
    /\ LastWas("AddSol", "Ok")
    /\ \E k \in ActiveKeys :
          /\ account_data[k].state \in Accumulating
          /\ account_data[k].lamports = Some(InitBalance - RentMinimumBalance)
          /\ balances[k] = InitBalance
          /\ balances[account_data[k].owner] = 0

====
